---- MODULE Spec2Model ----
(***************************************************************************)
(* Log-ingestion and record-correlation pipeline of streamlit_app.py:      *)
(* load_json_logs, add_file_sizes, load_country_logs and the country       *)
(* lookup of show_dashboard.                                               *)
(*                                                                         *)
(* The filesystem is the input.  A run is deterministic once the tree is   *)
(* fixed, so Init draws the tree from bounded families and the actions     *)
(* replay the code on it.                                                  *)
(***************************************************************************)
EXTENDS Integers, Sequences, FiniteSets, TLC

VARIABLES
    base_dir,      \* argument of load_country_logs
    base_kind,     \* what base_dir is on disk: "absent" or "dir"
    listing,       \* os.listdir(base_dir): sequence of entries, in enumeration order
    artifacts,     \* regular files addressed by add_file_sizes: set of [path, size]
    pc,            \* position of the pipeline / dashboard
    k,             \* index of the next entry of listing to process
    country_dfs,   \* the mapping being built: country name -> dataset (sequence of rows)
    diags,         \* diagnostics emitted so far (st.warning / st.info), in order
    trail,         \* per processed country: what the loop body did (history)
    selected,      \* show_dashboard: selector entry, the key it was built from, the lookup
    log_dir,       \* argument of a direct load_json_logs call
    load_result    \* result of that call

vars == <<base_dir, base_kind, listing, artifacts, pc, k, country_dfs, diags,
          trail, selected, log_dir, load_result>>

----------------------------------------------------------------------------
(* Bounds *)

MaxFiles == 2        \* files per log directory
MaxCountries == 2    \* entries of the base directory
MaxDirFiles == 3     \* entries of the directory of a direct load_json_logs call

----------------------------------------------------------------------------
(* Values *)

\* None / NaN: the null marker of a missing field or a missing artifact
Null == "null"

BASE_DIR == "data"

Bases == {BASE_DIR, "mnt"}

\* Country names are character sequences, so that case conversion is computed.
Names == { <<"u", "s">>, <<"U", "S">>, <<"f", "r">> }

LowerChar(c) ==
    CASE c = "U" -> "u"
      [] c = "S" -> "s"
      [] c = "F" -> "f"
      [] c = "R" -> "r"
      [] OTHER -> c

UpperChar(c) ==
    CASE c = "u" -> "U"
      [] c = "s" -> "S"
      [] c = "f" -> "F"
      [] c = "r" -> "R"
      [] OTHER -> c

\* str.lower()
Lower(s) == [i \in 1..Len(s) |-> LowerChar(s[i])]

\* str.capitalize(): first character upper-cased, the rest lower-cased
Capitalize(s) == [i \in 1..Len(s) |-> IF i = 1 THEN UpperChar(s[i]) ELSE LowerChar(s[i])]

\* image identifiers found in the logs; "" is the falsy one
Ids == {"a", ""}

\* timestamp strings: one pd.to_datetime parses, one it rejects
Timestamps == {"2024-01-01T00:00:00Z", "not-a-date"}

Parses(ts) == ts = "2024-01-01T00:00:00Z"

\* A log record is a JSON object; only the fields the pipeline reads are kept.
\* A field the object lacks is Null.  Input logs carry image_id and timestamp,
\* output logs carry image_id_from_log.
Fields == {"image_id", "timestamp", "image_id_from_log"}

InputRecords ==
    [image_id : Ids \cup {Null}, timestamp : Timestamps \cup {Null}, image_id_from_log : {Null}]

OutputRecords ==
    [image_id : {Null}, timestamp : {Null}, image_id_from_log : Ids \cup {Null}]

NoRecord == [image_id |-> Null, timestamp |-> Null, image_id_from_log |-> Null]

\* One directory entry, by what f.endswith(".json"), open() and json.load() do with it.
RecordFile(r) == [json |-> TRUE, kind |-> "record", rec |-> r]
Malformed == [json |-> TRUE, kind |-> "malformed", rec |-> NoRecord]      \* JSONDecodeError
Undecodable == [json |-> TRUE, kind |-> "undecodable", rec |-> NoRecord]  \* UnicodeDecodeError
Unopenable == [json |-> TRUE, kind |-> "unopenable", rec |-> NoRecord]    \* OSError in open()
OtherFile == [json |-> FALSE, kind |-> "other", rec |-> NoRecord]         \* not *.json

AbsentDir == [exists |-> FALSE, isdir |-> FALSE, files |-> <<>>]
PlainFile == [exists |-> TRUE, isdir |-> FALSE, files |-> <<>>]
Dir(fs) == [exists |-> TRUE, isdir |-> TRUE, files |-> fs]

SeqsUpTo(S, n) == UNION { [1..m -> S] : m \in 0..n }

----------------------------------------------------------------------------
(* load_json_logs *)

\* indices of the entries of files whose name ends in ".json", in listing order
JsonFiles(files) ==
    SelectSeq([i \in 1..Len(files) |-> i], LAMBDA i : files[i].json)

NoLogs(ds) == [raised |-> FALSE, logs |-> <<>>, diags |-> ds, reads |-> <<>>]

\* The for loop of load_json_logs over json_files[n..]: st is the state on
\* entry to iteration n.  An exception other than JSONDecodeError leaves the
\* loop and the function.
RECURSIVE ReadFiles(_, _, _, _)
ReadFiles(files, json_files, n, st) ==
    IF n > Len(json_files) THEN st
    ELSE LET i == json_files[n]
             f == files[i]
         IN  IF f.kind = "unopenable"
             THEN [st EXCEPT !.raised = TRUE]
             ELSE LET opened == [st EXCEPT !.reads = Append(@, i)]
                  IN  CASE f.kind = "record" ->
                             ReadFiles(files, json_files, n + 1,
                                       [opened EXCEPT !.logs = Append(@, f.rec)])
                        [] f.kind = "malformed" ->
                             ReadFiles(files, json_files, n + 1,
                                       [opened EXCEPT !.diags =
                                           Append(@, [kind |-> "decode", file |-> i])])
                        [] OTHER -> [opened EXCEPT !.raised = TRUE]

\* load_json_logs(log_dir): the records loaded, the diagnostics emitted, the
\* files opened (in order), and whether the call ended by raising.
load_json_logs(d) ==
    IF ~d.exists
    THEN NoLogs(<<[kind |-> "dir_not_found", file |-> 0]>>)
    ELSE IF ~d.isdir
    THEN [NoLogs(<<>>) EXCEPT !.raised = TRUE]     \* os.listdir: NotADirectoryError
    ELSE LET json_files == JsonFiles(d.files)
         IN  IF json_files = <<>>
             THEN NoLogs(<<[kind |-> "no_json", file |-> 0]>>)
             ELSE ReadFiles(d.files, json_files, 1, NoLogs(<<>>))

\* the column labels of pd.DataFrame(logs)
Columns(logs) == {f \in Fields : \E i \in 1..Len(logs) : logs[i][f] # Null}

\* an emptiness test that never fires
Empty_Never(logs) == FALSE

\* DataFrame.empty: some axis has length 0
Empty(logs) == Len(logs) = 0 \/ Columns(logs) = {}

----------------------------------------------------------------------------
(* pd.merge and pd.to_datetime *)

\* Key comparison of pd.merge: equal values match, and a null key matches a
\* null key.
KeyMatch(a, b) == a = b

\* The pairs (input index, output index) in the order of an inner merge:
\* by input row, then by output row.
Pairs(n, m) == [p \in 1..(n * m) |-> << ((p - 1) \div m) + 1, ((p - 1) % m) + 1 >>]

\* a merge that keeps, for each input row, its first matching output row only
MergeRows_FirstMatchOnly(input_logs, output_logs) ==
    LET matched == SelectSeq(Pairs(Len(input_logs), Len(output_logs)),
                             LAMBDA pr :
                                /\ KeyMatch(input_logs[pr[1]].image_id,
                                            output_logs[pr[2]].image_id_from_log)
                                /\ \A o \in 1..(pr[2] - 1) :
                                      ~KeyMatch(input_logs[pr[1]].image_id,
                                                output_logs[o].image_id_from_log))
    IN  [j \in 1..Len(matched) |->
            [i |-> matched[j][1],
             o |-> matched[j][2],
             image_id |-> input_logs[matched[j][1]].image_id,
             timestamp |-> input_logs[matched[j][1]].timestamp,
             image_id_from_log |-> output_logs[matched[j][2]].image_id_from_log]]

\* pd.merge(input_df, output_df, left_on="image_id",
\*          right_on="image_id_from_log", how="inner")
MergeRows(input_logs, output_logs) ==
    LET matched == SelectSeq(Pairs(Len(input_logs), Len(output_logs)),
                             LAMBDA pr : KeyMatch(input_logs[pr[1]].image_id,
                                                  output_logs[pr[2]].image_id_from_log))
    IN  [j \in 1..Len(matched) |->
            [i |-> matched[j][1],
             o |-> matched[j][2],
             image_id |-> input_logs[matched[j][1]].image_id,
             timestamp |-> input_logs[matched[j][1]].timestamp,
             image_id_from_log |-> output_logs[matched[j][2]].image_id_from_log]]

\* pd.merge raises KeyError when a key column is not in its frame
MergeRaises(input_logs, output_logs) ==
    \/ "image_id" \notin Columns(input_logs)
    \/ "image_id_from_log" \notin Columns(output_logs)

\* pd.to_datetime of one cell: a missing value becomes NaT
ToDatetime(ts) == IF ts = Null THEN "NaT" ELSE "2024-01-01 00:00:00+00:00"

\* df["timestamp"] raises KeyError without the column; pd.to_datetime raises
\* on the first string it cannot parse
DatetimeRaises(input_logs, rows) ==
    \/ "timestamp" \notin Columns(input_logs)
    \/ \E j \in 1..Len(rows) : rows[j].timestamp # Null /\ ~Parses(rows[j].timestamp)

----------------------------------------------------------------------------
(* add_file_sizes *)

MiB == 1048576
Scale == 100000

NoSize == [some |-> FALSE, v |-> 0]       \* None
SizeOf(v) == [some |-> TRUE, v |-> v]     \* a float, in units of 10^-5 MB

\* round(n / d) for naturals, ties to even
RoundHalfEven(n, d) ==
    LET q == n \div d
        r == n % d
    IN  IF 2 * r < d THEN q
        ELSE IF 2 * r > d THEN q + 1
        ELSE IF q % 2 = 0 THEN q ELSE q + 1

Exists(path) == \E a \in artifacts : a.path = path

GetSize(path) == (CHOOSE a \in artifacts : a.path = path).size

\* a get_size_mb that reports a missing file as 0 MB
get_size_mb_zero_when_missing(path) ==
    IF Exists(path) THEN SizeOf(RoundHalfEven(GetSize(path) * Scale, MiB)) ELSE SizeOf(0)

\* get_size_mb(path)
get_size_mb(path) ==
    IF Exists(path) THEN SizeOf(RoundHalfEven(GetSize(path) * Scale, MiB)) ELSE NoSize

\* truth value of a cell: NaN (a field the record lacks) is truthy, "" is not
Truthy(v) == v # ""

\* f"{image_id}"
Format(v) == IF v = Null THEN "nan" ELSE v

\* row.get("image_id") or row.get("image_id_from_log")
ResolveId(row) == IF Truthy(row.image_id) THEN row.image_id ELSE row.image_id_from_log

InputPath(base, country, input_dir, image_id) == <<base, country, input_dir, Format(image_id)>>
OutputPath(base, country, output_dir, image_id) == <<base, country, output_dir, Format(image_id)>>

\* the two sizes add_file_sizes records for one row
RowSizes(row, country, base, input_dir, output_dir) ==
    LET image_id == ResolveId(row)
    IN  IF ~Truthy(image_id)
        THEN [input_file_size |-> NoSize, output_file_size |-> NoSize]
        ELSE [input_file_size |-> get_size_mb(InputPath(base, country, input_dir, image_id)),
              output_file_size |-> get_size_mb(OutputPath(base, country, output_dir, image_id))]

\* add_file_sizes(df, country, base_dir, input_dir, output_dir)
add_file_sizes(df, country, base, input_dir, output_dir) ==
    [j \in 1..Len(df) |->
        LET sz == RowSizes(df[j], country, base, input_dir, output_dir)
        IN  [i |-> df[j].i, o |-> df[j].o,
             image_id |-> df[j].image_id,
             timestamp |-> df[j].timestamp,
             image_id_from_log |-> df[j].image_id_from_log,
             country |-> df[j].country,
             input_file_size |-> sz.input_file_size,
             output_file_size |-> sz.output_file_size]]

----------------------------------------------------------------------------
(* load_country_logs *)

EmptyDict == <<>>

\* country_dfs[key] = df
Put(d, key, df) == [x \in DOMAIN d \cup {key} |-> IF x = key THEN df ELSE d[x]]

\* A diagnostic of the pipeline.  country is the country its text names, or
\* <<>> when the text names none; file is the index of the file it names, or 0.
Diag(kind, country, file) == [kind |-> kind, country |-> country, file |-> file]

\* The warnings of one load_json_logs call, as they appear among the
\* pipeline's diagnostics: "Could not decode <filename>" names the file only,
\* the other two name the directory, whose path holds the country.
LoaderDiags(ds, country) ==
    [j \in 1..Len(ds) |->
        Diag(ds[j].kind, IF ds[j].kind = "decode" THEN <<>> ELSE country, ds[j].file)]

Tag(rows, country) ==
    [j \in 1..Len(rows) |->
        [i |-> rows[j].i, o |-> rows[j].o,
         image_id |-> rows[j].image_id,
         timestamp |-> ToDatetime(rows[j].timestamp),
         image_id_from_log |-> rows[j].image_id_from_log,
         country |-> country]]

\* a try block that treats a join without rows as a failure
TryJoin_RejectsNoMatch(input_logs, output_logs, country) ==
    IF MergeRaises(input_logs, output_logs)
    THEN [raised |-> TRUE, df |-> <<>>]
    ELSE LET rows == MergeRows(input_logs, output_logs)
         IN  IF DatetimeRaises(input_logs, rows) \/ Len(rows) = 0
             THEN [raised |-> TRUE, df |-> <<>>]
             ELSE [raised |-> FALSE,
                   df |-> add_file_sizes(Tag(rows, country), country, "data", "input", "output")]

\* The try block of the loop body: merge, to_datetime, country column,
\* add_file_sizes (called with its default base_dir, input_dir, output_dir).
TryJoin(input_logs, output_logs, country) ==
    IF MergeRaises(input_logs, output_logs)
    THEN [raised |-> TRUE, df |-> <<>>]
    ELSE LET rows == MergeRows(input_logs, output_logs)
         IN  IF DatetimeRaises(input_logs, rows)
             THEN [raised |-> TRUE, df |-> <<>>]
             ELSE [raised |-> FALSE,
                   df |-> add_file_sizes(Tag(rows, country), country, "data", "input", "output")]

Step(outcome, ds, df, input_logs, output_logs) ==
    [outcome |-> outcome, diags |-> ds, df |-> df,
     input_logs |-> input_logs, output_logs |-> output_logs]

\* One iteration of the for loop over os.listdir(base_dir), for the entry e.
\* outcome: "missing_folder", "skip_empty", "error" (caught), "ok", or
\* "raised" (an exception left load_country_logs).
LoopBody(e) ==
    LET country == e.name
    IN  IF ~(e.inp.isdir /\ e.out.isdir)
        THEN Step("missing_folder", <<Diag("missing_folder", country, 0)>>, <<>>, <<>>, <<>>)
        ELSE
        LET li == load_json_logs(e.inp)
            di == LoaderDiags(li.diags, country)
        IN  IF li.raised THEN Step("raised", di, <<>>, li.logs, <<>>)
            ELSE
            LET lo == load_json_logs(e.out)
                dio == di \o LoaderDiags(lo.diags, country)
            IN  IF lo.raised THEN Step("raised", dio, <<>>, li.logs, lo.logs)
                ELSE IF Empty(li.logs) \/ Empty(lo.logs)
                THEN Step("skip_empty", Append(dio, Diag("skip_empty", country, 0)),
                          <<>>, li.logs, lo.logs)
                ELSE LET t == TryJoin(li.logs, lo.logs, country)
                     IN  IF t.raised
                         THEN Step("error", Append(dio, Diag("error", country, 0)),
                                   <<>>, li.logs, lo.logs)
                         ELSE Step("ok", dio, t.df, li.logs, lo.logs)

\* load_country_logs up to the loop
Start ==
    /\ pc = "start"
    /\ pc' = IF base_kind = "absent" THEN "returned" ELSE "loop"
    /\ diags' = IF base_kind = "absent"
                THEN Append(diags, Diag("base_not_found", <<>>, 0))
                ELSE diags
    /\ UNCHANGED <<base_dir, base_kind, listing, artifacts, k, country_dfs, trail,
                   selected, log_dir, load_result>>

\* one iteration of the loop
ProcessCountry ==
    /\ pc = "loop"
    /\ k <= Len(listing)
    /\ LET e == listing[k]
           b == LoopBody(e)
       IN  /\ pc' = IF b.outcome = "raised" THEN "raised" ELSE "loop"
           /\ country_dfs' = IF b.outcome = "ok"
                           THEN Put(country_dfs, e.name, b.df)
                           ELSE country_dfs
           /\ diags' = diags \o b.diags
           /\ trail' = Append(trail, [name |-> e.name, outcome |-> b.outcome,
                                      input_logs |-> b.input_logs,
                                      output_logs |-> b.output_logs])
    /\ k' = k + 1
    /\ UNCHANGED <<base_dir, base_kind, listing, artifacts, selected, log_dir, load_result>>

\* return country_dfs
Return ==
    /\ pc = "loop"
    /\ k > Len(listing)
    /\ pc' = "returned"
    /\ UNCHANGED <<base_dir, base_kind, listing, artifacts, k, country_dfs, diags, trail,
                   selected, log_dir, load_result>>

----------------------------------------------------------------------------
(* show_dashboard, from the call of load_country_logs() to the df.empty test *)

show_dashboard ==
    /\ pc = "returned"
    /\ base_dir = BASE_DIR
    /\ IF DOMAIN country_dfs = {}
       THEN /\ pc' = "no_logs"
            /\ diags' = Append(diags, Diag("no_logs", <<>>, 0))
            /\ UNCHANGED selected
       ELSE \E key \in DOMAIN country_dfs :
              LET selected_country == Capitalize(key)
                  lookup == Lower(selected_country)
                  found == lookup \in DOMAIN country_dfs
                  df == IF found THEN country_dfs[lookup] ELSE <<>>
              IN  /\ selected' = [entry |-> selected_country, from |-> key,
                                  found |-> found, df |-> df]
                  /\ pc' = IF ~found THEN "KeyError"
                           ELSE IF Len(df) = 0 THEN "no_data" ELSE "charts"
                  /\ diags' = IF found /\ Len(df) = 0
                              THEN Append(diags, Diag("no_data", selected_country, 0))
                              ELSE diags
    /\ UNCHANGED <<base_dir, base_kind, listing, artifacts, k, country_dfs, trail,
                   log_dir, load_result>>

----------------------------------------------------------------------------
(* a direct call of load_json_logs *)

CallLoadJsonLogs ==
    /\ pc = "load"
    /\ load_result' = load_json_logs(log_dir)
    /\ pc' = "loaded"
    /\ UNCHANGED <<base_dir, base_kind, listing, artifacts, k, country_dfs, diags, trail,
                   selected, log_dir>>

----------------------------------------------------------------------------
(* Initial states: the trees the pipeline is run on *)

Entry(name, inp, out) == [name |-> name, inp |-> inp, out |-> out]

RecordFiles(recs) == [j \in 1..Len(recs) |-> RecordFile(recs[j])]

\* names of artifact files: the text of a truthy image_id.  (The empty id
\* names no file: joined to a directory it gives the directory itself.)
ArtifactNames == {Format(v) : v \in {x \in Ids \cup {Null} : Truthy(x)}}

\* sample byte sizes: empty, rounding down to 0, rounding up, a tie (16384
\* bytes are 0.015625 MB), and one more; size * Scale stays below 2^31
SampleSizes == {0, 5, 6, 16384, 20000}

\* Artifacts of every country under base/<country>/ind and base/<country>/outd;
\* ins and outs hold the byte size, or nothing when there is no artifact there.
ArtifactLayout(base, ind, outd, ins, outs) ==
    {[path |-> <<base, c, ind, nm>>, size |-> sz] :
        c \in Names, nm \in ArtifactNames, sz \in ins}
    \cup
    {[path |-> <<base, c, outd, nm>>, size |-> sz] :
        c \in Names, nm \in ArtifactNames, sz \in outs}

OneOrNone(S) == {{}} \cup {{x} : x \in S}

DefaultArtifacts == ArtifactLayout(BASE_DIR, "input", "output", {6}, {})

NoSelection == [entry |-> <<>>, from |-> <<>>, found |-> FALSE, df |-> <<>>]

Fresh ==
    /\ k = 1
    /\ country_dfs = EmptyDict
    /\ diags = <<>>
    /\ trail = <<>>
    /\ selected = NoSelection
    /\ log_dir = AbsentDir
    /\ load_result = NoLogs(<<>>)

GoodInput == [image_id |-> "a", timestamp |-> "2024-01-01T00:00:00Z", image_id_from_log |-> Null]
BadDateInput == [image_id |-> "a", timestamp |-> "not-a-date", image_id_from_log |-> Null]
GoodOutput == [image_id |-> Null, timestamp |-> Null, image_id_from_log |-> "a"]

\* one country, every combination of well-formed log files
InitJoin ==
    /\ pc = "start"
    /\ base_dir = BASE_DIR
    /\ base_kind = "dir"
    /\ artifacts = DefaultArtifacts
    /\ \E fi \in SeqsUpTo(InputRecords, MaxFiles), fo \in SeqsUpTo(OutputRecords, MaxFiles) :
          listing = <<Entry(<<"u", "s">>, Dir(RecordFiles(fi)), Dir(RecordFiles(fo)))>>
    /\ Fresh

TreeInputs ==
    {AbsentDir, Dir(<<Malformed>>), Dir(<<Unopenable>>),
     Dir(<<RecordFile(GoodInput)>>), Dir(<<RecordFile(BadDateInput)>>)}

TreeOutputs ==
    {AbsentDir, Dir(<<RecordFile(GoodOutput)>>), Dir(<<Undecodable, RecordFile(GoodOutput)>>)}

TreeEntries == {Entry(n, i, o) : n \in Names, i \in TreeInputs, o \in TreeOutputs}

TreeListings ==
    {l \in SeqsUpTo(TreeEntries, MaxCountries) :
        \A x, y \in 1..Len(l) : x # y => l[x].name # l[y].name}

\* several countries, in any enumeration order, some of them faulty; or no
\* base directory at all
InitTree ==
    /\ pc = "start"
    /\ base_dir = BASE_DIR
    /\ artifacts = DefaultArtifacts
    /\ \/ base_kind = "absent" /\ listing = <<>>
       \/ base_kind = "dir" /\ listing \in TreeListings
    /\ Fresh

\* one country with one matching pair of records, every artifact layout
InitArtifacts ==
    /\ pc = "start"
    /\ base_dir \in Bases
    /\ base_kind = "dir"
    /\ \E b \in Bases, suffix \in {"", "_logs"},
          ins \in OneOrNone(SampleSizes), outs \in OneOrNone(SampleSizes) :
          artifacts = ArtifactLayout(b, IF suffix = "" THEN "input" ELSE "input_logs",
                                     IF suffix = "" THEN "output" ELSE "output_logs",
                                     ins, outs)
    /\ \E id \in Ids \cup {Null} :
          listing = <<Entry(<<"u", "s">>,
                            Dir(<<RecordFile([GoodInput EXCEPT !.image_id = id]),
                                  RecordFile(GoodInput)>>),
                            Dir(<<RecordFile([GoodOutput EXCEPT !.image_id_from_log = id])>>))>>
    /\ Fresh

Init == InitJoin \/ InitTree \/ InitArtifacts

Next == Start \/ ProcessCountry \/ Return \/ show_dashboard

Spec == Init /\ [][Next]_vars

\* the directories load_json_logs is called on directly
LoaderFiles ==
    {OtherFile, Malformed, Undecodable, Unopenable,
     RecordFile(GoodInput), RecordFile(BadDateInput)}

InitLoader ==
    /\ pc = "load"
    /\ base_dir = BASE_DIR
    /\ base_kind = "dir"
    /\ listing = <<>>
    /\ artifacts = {}
    /\ k = 1
    /\ country_dfs = EmptyDict
    /\ diags = <<>>
    /\ trail = <<>>
    /\ selected = NoSelection
    /\ log_dir \in {AbsentDir, PlainFile} \cup {Dir(fs) : fs \in SeqsUpTo(LoaderFiles, MaxDirFiles)}
    /\ load_result = NoLogs(<<>>)

NextLoader == CallLoadJsonLogs

SpecLoader == InitLoader /\ [][NextLoader]_vars

----------------------------------------------------------------------------
(* Properties *)

\* the pipeline has returned its mapping (show_dashboard may have gone on)
Returned == pc \in {"returned", "no_logs", "KeyError", "no_data", "charts"}

\* the entries of trail whose country is in the mapping
Present(j) == trail[j].outcome = "ok" /\ trail[j].name \in DOMAIN country_dfs

Range(f) == {f[x] : x \in DOMAIN f}

\* C1: load_country_logs ends by returning a mapping and never by raising,
\* whatever the tree under the base directory holds.
C1_NeverRaises == pc # "raised"

\* the mapping load_country_logs builds from the entries l[n..], given dfs
RECURSIVE RunFrom(_, _, _)
RunFrom(l, n, dfs) ==
    IF n > Len(l) THEN dfs
    ELSE LET b == LoopBody(l[n])
         IN  RunFrom(l, n + 1, IF b.outcome = "ok" THEN Put(dfs, l[n].name, b.df) ELSE dfs)

Without(l, j) == SubSeq(l, 1, j - 1) \o SubSeq(l, j + 1, Len(l))

\* C2: an exception raised while processing one country (while loading,
\* joining, parsing timestamps or sizing) is caught and reported in a
\* diagnostic naming the country, the country is left out of the mapping, and
\* the mapping returned is the one the tree without that country yields.
C2_CountryFaultsIsolated ==
    \A j \in 1..Len(trail) :
        trail[j].outcome \in {"raised", "error"} =>
            /\ pc # "raised"
            /\ \E d \in Range(diags) : d.kind = "error" /\ d.country = trail[j].name
            /\ trail[j].name \notin DOMAIN country_dfs
            /\ Returned => country_dfs = RunFrom(Without(listing, j), 1, EmptyDict)

\* C3: in every country of the mapping, the pair (input record i, output
\* record o) is a row iff i.image_id equals o.image_id_from_log; every row
\* carries the keys of the one input and the one output record it comes from,
\* and no pair appears twice, so k inputs and m outputs sharing a key give
\* k*m rows.  (A record that lacks the key is keyed by the null marker.)
C3_JoinIsKeyEquality ==
    \A j \in 1..Len(trail) :
        Present(j) =>
            LET df == country_dfs[trail[j].name]
                ins == trail[j].input_logs
                outs == trail[j].output_logs
            IN  /\ \A i \in 1..Len(ins), o \in 1..Len(outs) :
                      (ins[i].image_id = outs[o].image_id_from_log)
                          <=> (\E r \in 1..Len(df) : df[r].i = i /\ df[r].o = o)
                /\ \A r \in 1..Len(df) :
                      /\ df[r].i \in 1..Len(ins)
                      /\ df[r].o \in 1..Len(outs)
                      /\ df[r].image_id = ins[df[r].i].image_id
                      /\ df[r].image_id_from_log = outs[df[r].o].image_id_from_log
                      /\ df[r].image_id = df[r].image_id_from_log
                /\ \A r1, r2 \in 1..Len(df) :
                      (df[r1].i = df[r2].i /\ df[r1].o = df[r2].o) => r1 = r2

\* two inputs and two outputs sharing one key have given four rows
C3_Witness ==
    \E j \in 1..Len(trail) :
        /\ Present(j)
        /\ Len(trail[j].input_logs) = 2
        /\ Len(trail[j].output_logs) = 2
        /\ Len(country_dfs[trail[j].name]) = 4

\* the path C4 speaks of: the artifact beside the logs it belongs to
LogsArtifact(country, subdir, row) == <<base_dir, country, subdir, Format(ResolveId(row))>>

\* C4: the sizes recorded for a row are those of the artifacts at
\* <base>/<country>/input_logs/<image_id> and <base>/<country>/output_logs/<image_id>,
\* <base> being the base directory given to load_country_logs.
C4_SizesOfArtifactsBesideLogs ==
    \A c \in DOMAIN country_dfs :
        \A r \in 1..Len(country_dfs[c]) :
            LET row == country_dfs[c][r]
            IN  Truthy(ResolveId(row)) =>
                    /\ row.input_file_size = get_size_mb(LogsArtifact(c, "input_logs", row))
                    /\ row.output_file_size = get_size_mb(LogsArtifact(c, "output_logs", row))

\* the loop body went as far as the merge
JoinAttempted(j) == trail[j].outcome \in {"ok", "error"}

\* C5: a country with no input record or no output record loaded is not in
\* the mapping and no join is attempted for it; a country in the mapping had
\* at least one input and one output record.
C5_EmptySideSkipped ==
    \A j \in 1..Len(trail) :
        /\ (Len(trail[j].input_logs) = 0 \/ Len(trail[j].output_logs) = 0) =>
              (trail[j].name \notin DOMAIN country_dfs /\ ~JoinAttempted(j))
        /\ trail[j].name \in DOMAIN country_dfs =>
              (Len(trail[j].input_logs) >= 1 /\ Len(trail[j].output_logs) >= 1)

\* both log folders exist, the input logs loaded to nothing, the outputs did
\* not, and the country was skipped
C5_Witness ==
    \E j \in 1..Len(trail) :
        /\ trail[j].outcome = "skip_empty"
        /\ Len(trail[j].input_logs) = 0
        /\ Len(trail[j].output_logs) >= 1
        /\ Returned

Count(S) == Cardinality(S)

\* C6: for an existing directory with N .json files that parse and M that are
\* malformed, load_json_logs returns exactly N records and emits exactly M
\* diagnostics about files, one per malformed file; a malformed file never
\* keeps the other files from being processed, and no file is read twice.
C6_NRecordsMDiagnostics ==
    (pc = "loaded" /\ log_dir.exists /\ log_dir.isdir) =>
        LET files == log_dir.files
            json == {i \in 1..Len(files) : files[i].json}
            valid == {i \in json : files[i].kind = "record"}
            malformed == {i \in json : files[i].kind \in {"malformed", "undecodable"}}
            res == load_result
        IN  /\ ~res.raised
            /\ Len(res.logs) = Count(valid)
            /\ Count({d \in 1..Len(res.diags) : res.diags[d].kind = "decode"})
                  = Count(malformed)
            /\ \A i \in malformed :
                  Count({d \in 1..Len(res.diags) : res.diags[d].file = i}) = 1
            /\ \A i \in valid \cup malformed :
                  Count({r \in 1..Len(res.reads) : res.reads[r] = i}) = 1
            /\ \A i \in json :
                  Count({r \in 1..Len(res.reads) : res.reads[r] = i}) <= 1

\* r is B / MiB rounded to 5 decimal digits, ties to even, in units of 10^-5
IsRounded(B, r) ==
    LET twice == 2 * (IF B * Scale >= r * MiB THEN B * Scale - r * MiB ELSE r * MiB - B * Scale)
    IN  twice < MiB \/ (twice = MiB /\ r % 2 = 0)

\* size is what the claim wants recorded for the artifact at path
RecordsArtifact(size, path) ==
    IF Exists(path)
    THEN size.some /\ IsRounded(GetSize(path), size.v)
    ELSE ~size.some /\ size # SizeOf(0)

\* the artifacts add_file_sizes is asked about for a row of country c
RowInputArtifact(c, row) == InputPath("data", c, "input", ResolveId(row))
RowOutputArtifact(c, row) == OutputPath("data", c, "output", ResolveId(row))

\* C7: for every row, an artifact that exists with B bytes is recorded as
\* round(B / 1048576, 5), and one that does not exist is recorded as the null
\* marker, never 0.  (A row whose image_id is the empty string names no
\* artifact.)
C7_SizeOrNull ==
    \A c \in DOMAIN country_dfs :
        \A r \in 1..Len(country_dfs[c]) :
            LET row == country_dfs[c][r]
            IN  /\ RecordsArtifact(row.input_file_size, RowInputArtifact(c, row))
                /\ RecordsArtifact(row.output_file_size, RowOutputArtifact(c, row))

\* a row whose input artifact has 16384 bytes (0.015625 MB, a tie: 0.01562)
\* and whose output artifact is missing
C7_Witness ==
    \E c \in DOMAIN country_dfs :
        \E r \in 1..Len(country_dfs[c]) :
            LET row == country_dfs[c][r]
            IN  /\ row.image_id = "a"
                /\ Exists(RowInputArtifact(c, row))
                /\ GetSize(RowInputArtifact(c, row)) = 16384
                /\ row.input_file_size = SizeOf(1562)
                /\ ~Exists(RowOutputArtifact(c, row))
                /\ row.output_file_size = NoSize

\* C8: every key of the mapping is a lowercase country name.
C8_KeysLowercase == \A key \in DOMAIN country_dfs : key = Lower(key)

\* C9: for every country offered in the selector, all_dfs[selected_country.lower()]
\* succeeds and is the dataset stored under the key the entry was built from.
C9_LookupFindsItsDataset ==
    pc \in {"KeyError", "no_data", "charts"} =>
        /\ selected.found
        /\ selected.df = country_dfs[selected.from]

FieldLess(logs) == \A i \in 1..Len(logs) : \A f \in Fields : logs[i][f] = Null

NoKeyMatch(ins, outs) ==
    \A i \in 1..Len(ins), o \in 1..Len(outs) : ins[i].image_id # outs[o].image_id_from_log

\* the joined frame cannot be built: a column the code names is missing, or a
\* joined row has a timestamp that does not parse
JoinFails(ins, outs) ==
    \/ \A i \in 1..Len(ins) : ins[i].image_id = Null
    \/ \A o \in 1..Len(outs) : outs[o].image_id_from_log = Null
    \/ \A i \in 1..Len(ins) : ins[i].timestamp = Null
    \/ \E i \in 1..Len(ins), o \in 1..Len(outs) :
          /\ ins[i].image_id = outs[o].image_id_from_log
          /\ ins[i].timestamp # Null
          /\ ~Parses(ins[i].timestamp)

Names_(kind, country) == \E d \in Range(diags) : d.kind = kind /\ d.country = country

\* C10 as stated: a country with both log folders is left out only when a
\* loaded record set has no record or an exception was caught; with records
\* on both sides and no matching key it stays, with zero rows and without a
\* diagnostic.
C10_OnlyEmptinessOrException ==
    Returned =>
        \A j \in 1..Len(trail) :
            trail[j].outcome # "missing_folder" =>
                LET ins == trail[j].input_logs
                    outs == trail[j].output_logs
                    c == trail[j].name
                IN  /\ c \notin DOMAIN country_dfs
                        <=> (Len(ins) = 0 \/ Len(outs) = 0 \/ Names_("error", c))
                    /\ (c \in DOMAIN country_dfs /\ NoKeyMatch(ins, outs)) =>
                          /\ Len(country_dfs[c]) = 0
                          /\ \A d \in Range(diags) : d.country # c

\* C10, amended: a record set also counts as empty when none of its records
\* has any field (DataFrame.empty).  A country with both log folders is left
\* out exactly when a loaded frame is empty in that sense or the join fails,
\* the failure being reported in a diagnostic naming the country; with
\* non-empty frames and no matching key it stays, with zero rows and without
\* a diagnostic.
C10_OnlyEmptyFrameOrException ==
    Returned =>
        \A j \in 1..Len(trail) :
            trail[j].outcome # "missing_folder" =>
                LET ins == trail[j].input_logs
                    outs == trail[j].output_logs
                    c == trail[j].name
                    gone == c \notin DOMAIN country_dfs
                    empty == FieldLess(ins) \/ FieldLess(outs)
                IN  /\ gone <=> (empty \/ JoinFails(ins, outs))
                    /\ (gone /\ ~empty) => Names_("error", c)
                    /\ (gone /\ empty) => Names_("skip_empty", c)
                    /\ (~gone /\ NoKeyMatch(ins, outs)) =>
                          /\ Len(country_dfs[c]) = 0
                          /\ \A d \in Range(diags) : d.country # c

\* records on both sides, no key in common: the country is in the mapping
\* with a dataset of zero rows
C10_Witness ==
    /\ Returned
    /\ \E j \in 1..Len(trail) :
          /\ Len(trail[j].input_logs) >= 1
          /\ Len(trail[j].output_logs) >= 1
          /\ NoKeyMatch(trail[j].input_logs, trail[j].output_logs)
          /\ trail[j].name \in DOMAIN country_dfs
          /\ Len(country_dfs[trail[j].name]) = 0

====
